---- MODULE Spec2Model ----
(***************************************************************************)
(* koa-better-router: the route registry (createRoute / addRoute), the     *)
(* middleware factory and the dispatcher it returns, modelled from         *)
(* src/index.js.                                                           *)
(*                                                                         *)
(* Strings are sequences of tokens: "/" and " " are tokens of their own,   *)
(* every other token is a run of characters without slash or space.        *)
(* "GET /u" is <<"GET", " ", "/", "u">>, "/a/u" is <<"/","a","/","u">>.     *)
(***************************************************************************)
EXTENDS Integers, Sequences, FiniteSets, TLC

VARIABLES options, routes, dispatchers, req, call, input,
          proto, loaded, mw, last

aux == <<proto, loaded, mw, last>>

vars == <<options, routes, dispatchers, req, call, input, aux>>

(***************************************************************************)
(* Bounds of the model                                                     *)
(***************************************************************************)
MaxRoutes == 2

(***************************************************************************)
(* JavaScript values passed to createRoute / addRoute.                     *)
(*   t = "str"   : a string, s its tokens                                  *)
(*   t = "fn"    : one handler function, h = <<handler>>                   *)
(*   t = "arr"   : an array of handler functions, h its elements           *)
(*   t = "num"   : a number (123)                                          *)
(*   t = "undef" : undefined (argument not given)                          *)
(***************************************************************************)
Str(s) == [t |-> "str", s |-> s, h |-> <<>>]
Fn(f) == [t |-> "fn", s |-> <<>>, h |-> <<f>>]
Arr(hs) == [t |-> "arr", s |-> <<>>, h |-> hs]
Num == [t |-> "num", s |-> <<>>, h |-> <<>>]
Undefined == [t |-> "undef", s |-> <<>>, h |-> <<>>]

(***************************************************************************)
(* Handlers.  A handler is named by an identifier; what it does when it    *)
(* runs is fixed by the identifier:                                        *)
(*   hp : modern, calls its continuation and returns its outcome           *)
(*   hs : modern, completes without calling its continuation               *)
(*   hf : modern, fails before calling its continuation                    *)
(*   hq : modern, calls its continuation, then fails                       *)
(*   gp : generator function (legacy convention), yields to its            *)
(*        continuation; cgp is what convert(gp) returns                    *)
(***************************************************************************)
Handlers == {"hp", "hs", "hf", "hq", "gp"}

isGenerator(fn) == fn = "gp"

convert(fn) == IF fn = "gp" THEN "cgp" ELSE fn

Behaviour(fn) ==
  CASE fn = "hp" -> "pass"
    [] fn = "hs" -> "stop"
    [] fn = "hf" -> "fail"
    [] fn = "hq" -> "passfail"
    [] fn = "cgp" -> "pass"
    \* a generator function called as (ctx, next) only builds its generator
    \* object: nothing of its body runs and the continuation is not called
    [] OTHER -> "stop"

(***************************************************************************)
(* String helpers                                                          *)
(***************************************************************************)
UpperTok(t) ==
  CASE t = "get" -> "GET"
    [] t = "post" -> "POST"
    [] t = "foo" -> "FOO"
    [] t = "u" -> "U"
    [] t = "a" -> "A"
    [] t = ":id" -> ":ID"
    [] t = "delete" -> "DELETE"
    [] OTHER -> t

toUpperCase(s) == [i \in DOMAIN s |-> UpperTok(s[i])]

RECURSIVE SplitFrom(_, _, _, _)
SplitFrom(s, i, cur, acc) ==
  IF i > Len(s) THEN Append(acc, cur)
  ELSE IF s[i] = " " THEN SplitFrom(s, i + 1, <<>>, Append(acc, cur))
  ELSE SplitFrom(s, i + 1, Append(cur, s[i]), acc)

\* String.prototype.split(' '): every space separates, empty parts are kept
split(s) == SplitFrom(s, 1, <<>>, <<>>)

(***************************************************************************)
(* utils.arrayify, utils.createPrefix, utils.pathMatch                     *)
(***************************************************************************)
\* falsy -> [], an array -> itself, anything else -> [val]
arrayify(val) ==
  CASE val.t = "undef" -> <<>>
    [] val.t = "arr" -> val.h
    [] val.t = "fn" -> val.h
    [] OTHER -> <<"notfn">>

RECURSIVE Collapse(_)
\* runs of "/" become one "/"
Collapse(s) ==
  IF Len(s) <= 1 THEN s
  ELSE IF s[1] = "/" /\ s[2] = "/" THEN Collapse(Tail(s))
  ELSE <<s[1]>> \o Collapse(Tail(s))

StripTrailing(s) ==
  IF Len(s) > 1 /\ s[Len(s)] = "/" THEN SubSeq(s, 1, Len(s) - 1) ELSE s

\* the prefix joined with the pattern, single-slash-normalized
createPrefix(prefix, pathname) ==
  StripTrailing(Collapse(prefix \o <<"/">> \o pathname))

RECURSIVE Segments(_)
\* the non-empty segments between the slashes of a path or pattern
Segments(s) ==
  IF s = <<>> THEN <<>>
  ELSE IF s[1] = "/" THEN Segments(Tail(s))
  ELSE <<s[1]>> \o Segments(Tail(s))

\* this.route(path): the matcher compiled from a full path
pathMatch(path) == [segs |-> Segments(path)]

IsParam(seg) == seg = ":id"
ParamName(seg) == IF seg = ":id" THEN "id" ELSE seg

\* parameter mappings are sets of <<name, value>>; these two are not mappings
NoParams == {<<"undefined">>}
NoMatch == {<<"false">>}

Bind(params, name, val) ==
  {p \in params : p[1] # name} \cup {<<name, val>>}

RECURSIVE BindAll(_, _, _)
BindAll(segs, psegs, params) ==
  IF segs = <<>> THEN params
  ELSE BindAll(Tail(segs), Tail(psegs),
               IF IsParam(segs[1])
                 THEN Bind(params, ParamName(segs[1]), psegs[1])
                 ELSE params)

\* matcher(path, params): the mapping (merged into params) or false
ApplyMatch(matcher, path, params) ==
  LET psegs == Segments(path)
      segs == matcher.segs
  IN IF /\ Len(psegs) = Len(segs)
        /\ \A i \in 1..Len(segs) : IsParam(segs[i]) \/ segs[i] = psegs[i]
       THEN BindAll(segs, psegs, IF params = NoParams THEN {} ELSE params)
       ELSE NoMatch

(***************************************************************************)
(* createRoute (src/index.js 210-244)                                      *)
(***************************************************************************)
NoRoute ==
  [prefix |-> <<>>, path |-> <<>>, pathname |-> <<>>, route |-> <<>>,
   match |-> pathMatch(<<>>), method |-> <<>>, middlewares |-> <<>>,
   params |-> NoParams]

ParseMethodNoDefault(method) == toUpperCase(split(method)[1])

\* let parts = method.split(' '); method = parts[0] || 'get'; toUpperCase
ParseMethod(method) ==
  LET parts == split(method)
  IN toUpperCase(IF parts[1] = <<>> THEN <<"get">> ELSE parts[1])

RECURSIVE Remainder(_)
\* what follows the first space of s, further spaces included
Remainder(s) ==
  IF s = <<>> THEN <<>>
  ELSE IF s[1] = " " THEN Tail(s) ELSE Remainder(Tail(s))

\* a pattern part that is all of the method spec after its first space
PatternPartRemainder(method) ==
  IF \E i \in 1..Len(method) : method[i] = " " THEN Str(Remainder(method))
  ELSE Undefined

\* parts[1] of the split method: a string, or undefined when there is none
PatternPart(method) ==
  LET parts == split(method)
  IN IF Len(parts) >= 2 THEN Str(parts[2]) ELSE Undefined

MiddlewaresAppended(route, fns, args) ==
  LET middlewares == arrayify(fns) \o args
  IN CASE route.t = "fn" -> middlewares \o route.h
       [] route.t = "arr" -> middlewares \o route.h
       [] OTHER -> middlewares

MiddlewaresNoRest(route, fns, args) ==
  LET middlewares == arrayify(fns)
  IN CASE route.t = "fn" -> route.h \o middlewares
       [] route.t = "arr" -> route.h \o middlewares
       [] OTHER -> middlewares

\* middlewares after lines 212, 222-229
Middlewares(route, fns, args) ==
  LET middlewares == arrayify(fns) \o args
  IN CASE route.t = "fn" -> route.h \o middlewares
       [] route.t = "arr" -> route.h \o middlewares
       [] OTHER -> middlewares

\* route after lines 222-229
ResolveRoute(method, route) ==
  IF route.t \in {"fn", "arr"} THEN PatternPart(method.s) ELSE route

createRoute(opts, method, route, fns, args) ==
  IF method.t # "str"
    THEN [err |-> "TypeError: method", val |-> NoRoute]
  ELSE LET r == ResolveRoute(method, route)
       IN IF r.t # "str"
            THEN [err |-> "TypeError: route", val |-> NoRoute]
          ELSE LET prefixed == createPrefix(opts.prefix, r.s)
               IN [err |-> "none",
                   val |-> [prefix |-> opts.prefix,
                            path |-> prefixed,
                            pathname |-> r.s,
                            route |-> r.s,
                            match |-> pathMatch(prefixed),
                            method |-> ParseMethod(method.s),
                            middlewares |-> Middlewares(route, fns, args),
                            params |-> NoParams]]

(***************************************************************************)
(* addRoute (src/index.js 166-170): a throw of createRoute leaves the      *)
(* table as it is                                                          *)
(***************************************************************************)
PushAlways(rs, created) == Append(rs, created.val)

\* a table that takes a Route only when it does not hold an equal one
PushUnique(rs, created) ==
  IF created.err = "none" /\ \A i \in 1..Len(rs) : rs[i] # created.val
    THEN Append(rs, created.val)
    ELSE rs

Push(rs, created) ==
  IF created.err = "none" THEN Append(rs, created.val) ELSE rs

addRoute(opts, rs, c) ==
  Push(rs, createRoute(opts, c.method, c.route, c.fns, c.args))

(***************************************************************************)
(* middleware(opts) and legacyMiddleware() (src/index.js 299-313, 379-381) *)
(*   opts.t = "undef" : no argument                                        *)
(*   opts.t = "bool"  : a boolean, opts.legacy = "true" / "false"          *)
(*   opts.t = "obj"   : an object; legacy is "true", "false" or "none"     *)
(*                      (absent or not a boolean), prefix is given when    *)
(*                      hasPrefix                                          *)
(***************************************************************************)
NoOpts == [t |-> "undef", legacy |-> "none", hasPrefix |-> FALSE, prefix |-> <<>>]
BoolOpts(b) == [t |-> "bool", legacy |-> b, hasPrefix |-> FALSE, prefix |-> <<>>]
ObjOpts(l, hp, p) == [t |-> "obj", legacy |-> l, hasPrefix |-> hp, prefix |-> p]

\* lines 300-305: opts.legacy is a boolean afterwards
ResolveLegacy(opts) == opts.legacy = "true"

\* a merge in which a call without a prefix falls back to the default "/"
MergeOptionsDefaults(thisOptions, opts) ==
  [prefix |-> IF opts.t = "obj" /\ opts.hasPrefix THEN opts.prefix ELSE <<"/">>,
   legacy |-> opts.legacy = "true"]

\* a merge in which a call that names no legacy keeps the configured one
MergeOptionsKeepLegacy(thisOptions, opts) ==
  [prefix |-> IF opts.t = "obj" /\ opts.hasPrefix THEN opts.prefix
              ELSE thisOptions.prefix,
   legacy |-> IF opts.legacy = "none" THEN thisOptions.legacy
              ELSE opts.legacy = "true"]

\* lines 309-310: utils.extend({}, this.options, opts)
MergeOptions(thisOptions, opts) ==
  [prefix |-> IF opts.t = "obj" /\ opts.hasPrefix THEN opts.prefix
              ELSE thisOptions.prefix,
   legacy |-> ResolveLegacy(opts)]

RECURSIVE middleware(_, _)
\* the router's options after the call and the dispatcher returned:
\* prefix is the prefix of the closure's options, legacy tells whether it
\* is wrapped by convert.back, calls lists the functions entered
middleware(thisOptions, opts) ==
  LET merged == MergeOptions(thisOptions, opts)
  IN IF merged.legacy
       THEN \* legacyMiddleware: utils.convert.back(this.middleware())
            LET inner == middleware(merged, NoOpts)
            IN [options |-> inner.options,
                disp |-> [prefix |-> inner.disp.prefix, legacy |-> TRUE],
                calls |-> <<"middleware", "legacyMiddleware">> \o inner.calls]
       ELSE [options |-> merged,
             disp |-> [prefix |-> merged.prefix, legacy |-> FALSE],
             calls |-> <<"middleware">>]

(***************************************************************************)
(* The dispatcher (src/index.js 314-350)                                   *)
(*                                                                         *)
(* A request is one call of a dispatcher with its own ctx.  ctx.route is   *)
(* the index of a route of this router's table, 0 when undefined and -1    *)
(* when an earlier stage of the pipeline left its own route there.         *)
(* Beside ctx (method, path, params, route) the record of a request keeps  *)
(* what the properties speak of: the dispatcher d, ctx as it came (params0, *)
(* route0), the length of the table at the call (seen), the route matched  *)
(* (hit), the routes rewritten (rew), the handlers started in order (ran), *)
(* the number of handlers running (active), the first failure (failed),    *)
(* whether a handler started after it (late), the calls of next()          *)
(* (nextCalls), the handlers running at that call (nextActive) and what    *)
(* next() returned (nextOut).                                              *)
(***************************************************************************)
SkipRouteNever(method, route) == FALSE

\* line 316: if (ctx.method !== route.method) continue
SkipRoute(method, route) == method # route.method

DispatcherPrefixLive(d) == options.prefix

\* the prefix the dispatcher matches with: options of its closure (line 309)
DispatcherPrefix(d) == d.prefix

RewriteNever(route, prefix) == route

\* a rewriting that stores the new prefix and leaves path and matcher
RewritePrefixOnly(route, prefix) == [route EXCEPT !.prefix = prefix]

\* lines 319-324
Rewrite(route, prefix) ==
  IF prefix # route.prefix
    THEN LET prefixed == createPrefix(prefix, route.pathname)
         IN [route EXCEPT !.prefix = prefix,
                          !.path = prefixed,
                          !.match = pathMatch(prefixed)]
    ELSE route

\* handlers left as they were registered
NormalizeNone(middlewares) == middlewares

\* lines 335-337
NormalizeHandlers(middlewares) ==
  [i \in DOMAIN middlewares |->
     IF isGenerator(middlewares[i]) THEN convert(middlewares[i])
     ELSE middlewares[i]]

\* a match that stores the converted handlers and not the mapping
StoreMatchHandlersOnly(route, match) ==
  [route EXCEPT !.middlewares = NormalizeHandlers(route.middlewares)]

\* lines 334-337: what a match stores on the route
StoreMatch(route, match) ==
  [route EXCEPT !.params = match,
                !.middlewares = NormalizeHandlers(route.middlewares)]

RECURSIVE MatchLoop(_, _, _, _, _, _)
\* the for loop of lines 315-346 from route i on: the table as the loop
\* leaves it, the index of the route that matched (0: none) and the set
\* of routes whose prefix was rewritten
MatchLoop(rs, i, prefix, method, path, params) ==
  IF i > Len(rs) THEN [routes |-> rs, hit |-> 0, rew |-> {}]
  ELSE IF SkipRoute(method, rs[i])
    THEN MatchLoop(rs, i + 1, prefix, method, path, params)
  ELSE LET route == Rewrite(rs[i], prefix)
           match == ApplyMatch(route.match, path, params)
           here == IF route # rs[i] THEN {i} ELSE {}
       IN IF match = NoMatch
            THEN LET rest == MatchLoop([rs EXCEPT ![i] = route], i + 1,
                                       prefix, method, path, params)
                 IN [rest EXCEPT !.rew = @ \cup here]
            ELSE [routes |-> [rs EXCEPT ![i] = StoreMatch(route, match)],
                  hit |-> i, rew |-> here]

IdleReq ==
  [st |-> "idle", d |-> [prefix |-> <<>>, legacy |-> FALSE],
   method |-> <<>>, path |-> <<>>,
   params |-> NoParams, route |-> 0, params0 |-> NoParams, route0 |-> 0,
   seen |-> 0, hit |-> 0, rew |-> {}, chain |-> <<>>, cur |-> 0, phase |-> "none",
   result |-> 0, ran |-> <<>>, active |-> 0, failed |-> 0, late |-> FALSE,
   settled |-> "pending", nextCalls |-> 0, nextActive |-> 0,
   nextOut |-> "none", outcome |-> "pending", error |-> 0]

OnExhaustedNoReturn(r, nx) ==
  [r EXCEPT !.st = "done", !.nextCalls = @ + 1, !.nextOut = nx,
            !.outcome = "resolved"]

\* line 349: the table is exhausted, return next()
OnExhausted(r, nx) ==
  [r EXCEPT !.st = "done", !.nextCalls = @ + 1, !.nextOut = nx,
            !.outcome = nx]

\* a match that sets ctx.route and leaves ctx.params as the request came
OnMatchKeepParams(r, hit, route) ==
  [r EXCEPT !.st = "chain", !.route = hit,
            !.chain = route.middlewares, !.cur = 1, !.phase = "enter"]

\* lines 340-345: ctx.route, ctx.params, then compose(route.middlewares)(ctx)
OnMatch(r, hit, route) ==
  [r EXCEPT !.st = "chain", !.route = hit, !.params = route.params,
            !.chain = route.middlewares, !.cur = 1, !.phase = "enter"]

\* the dispatcher called with (ctx, next): the table and the request after
\* the synchronous part
dispatch(rs, r, d, method, path, seed, nx) ==
  LET r0 == [r EXCEPT !.d = d, !.method = method, !.path = path,
                      !.params = seed.params, !.route = seed.route,
                      !.params0 = seed.params, !.route0 = seed.route]
      m == MatchLoop(rs, 1, DispatcherPrefix(d), method, path, r0.params)
      r1 == [r0 EXCEPT !.seen = Len(rs), !.hit = m.hit, !.rew = m.rew]
  IN [routes |-> m.routes,
      req |-> IF m.hit = 0 THEN OnExhausted(r1, nx)
              ELSE OnMatch(r1, m.hit, m.routes[m.hit])]

(***************************************************************************)
(* utils.compose(route.middlewares)(ctx).then(() => next())                *)
(*                                                                         *)
(* cur/phase: "enter" - dispatch(cur) of the composition is about to run;  *)
(* "exit" - handler cur is about to complete, result being the outcome of  *)
(* its continuation (0: resolved, k > 0: rejected with the failure of      *)
(* handler k).                                                             *)
(***************************************************************************)
OnSettleNever(o) == "done"

OnSettleAlways(o) == "then"

\* the composition's promise has settled with o: .then(() => next())
\* runs only when it resolved
OnSettle(o) == IF o = 0 THEN "then" ELSE "done"

Settle(r, o) ==
  [r EXCEPT !.settled = IF o = 0 THEN "resolved" ELSE "rejected",
            !.st = OnSettle(o), !.phase = "none", !.cur = 0,
            !.outcome = IF OnSettle(o) = "done" THEN "rejected" ELSE @,
            !.error = IF OnSettle(o) = "done" THEN o ELSE @]

\* dispatch(i) of the composition
Enter(r) ==
  LET i == r.cur
  IN IF i > Len(r.chain)
       THEN \* fn = next, which is undefined: Promise.resolve()
            IF i = 1 THEN Settle(r, 0)
            ELSE [r EXCEPT !.cur = i - 1, !.phase = "exit", !.result = 0]
     ELSE LET b == Behaviour(r.chain[i])
              started == [r EXCEPT !.ran = Append(@, r.chain[i]),
                                   !.active = @ + 1,
                                   !.late = @ \/ r.failed # 0]
          IN IF b \in {"pass", "passfail"}
               THEN [started EXCEPT !.cur = i + 1]
               ELSE [started EXCEPT !.phase = "exit", !.result = 0]

\* handler cur completes
Exit(r) ==
  LET i == r.cur
      b == Behaviour(r.chain[i])
      o == CASE b = "fail" -> i
             [] b = "passfail" -> IF r.result = 0 THEN i ELSE r.result
             [] OTHER -> r.result
      done == [r EXCEPT !.active = @ - 1,
                        !.failed = IF @ = 0 THEN o ELSE @]
  IN IF i = 1 THEN Settle(done, o)
     ELSE [done EXCEPT !.cur = i - 1, !.result = o]

\* .then(() => next()): the dispatcher's outcome is that of next()
Then(r, nx) ==
  [r EXCEPT !.st = "done", !.nextCalls = @ + 1, !.nextActive = r.active,
            !.nextOut = nx, !.outcome = nx]

(***************************************************************************)
(* Inputs                                                                  *)
(***************************************************************************)
Root == <<"/">>
PrefixA == <<"/", "a">>
PatU == <<"/", "u">>
PatId == <<"/", ":id">>

Call(m, r, f, a) == [method |-> m, route |-> r, fns |-> f, args |-> a]

NoCall ==
  [op |-> "none", c |-> Call(Undefined, Undefined, Undefined, <<>>),
   err |-> "none", val |-> NoRoute,
   opts |-> [prefix |-> <<>>, legacy |-> FALSE],
   optsAfter |-> [prefix |-> <<>>, legacy |-> FALSE],
   before |-> <<>>, after |-> <<>>, ret |-> "none"]

\* registrations of the dispatch specification
RouteCalls ==
  { Call(Str(<<"GET">>), Str(PatU), Fn("hp"), <<"gp">>),
    Call(Str(<<"GET", " ">> \o PatId), Arr(<<"hs", "hp">>), Undefined, <<>>),
    Call(Str(<<"get", " ">> \o PatU), Fn("hp"), Fn("hf"), <<"hp">>),
    Call(Str(<<"post">>), Str(PatU), Fn("hq"), <<"hp">>),
    Call(Str(<<"GET">>), Str(PatId), Undefined, <<>>) }

\* middleware() calls of the dispatch specification
MiddlewareOpts ==
  { NoOpts, ObjOpts("none", TRUE, PrefixA), ObjOpts("none", TRUE, Root) }

ConstructorOptions ==
  { [prefix |-> Root, legacy |-> FALSE], [prefix |-> PrefixA, legacy |-> FALSE] }

Methods == { <<"GET">>, <<"POST">> }
Paths == { <<"/", "u">>, <<"/", "a", "/", "u">> }
\* the ctx a request arrives with: fresh, or left by an earlier stage
Seeds ==
  { [params |-> NoParams, route |-> 0],
    [params |-> {<<"id", "z">>}, route |-> -1] }
NextOutcomes == {"resolved", "rejected"}
Requests == {1}

(***************************************************************************)
(* loadMethods (src/index.js 92-103).  The verb methods are defined on     *)
(* KoaBetterRouter.prototype, the one object every router instance         *)
(* inherits from: proto is the set of the verb-method names defined on it. *)
(* Routers are the instances: "this" is the router whose options and table *)
(* the model keeps, "other" is a second instance.  loaded is the set of    *)
(* the instances on which loadMethods() was invoked.                       *)
(***************************************************************************)
Routers == {"this", "other"}

\* utils.methods, the lower-case verb names (three of them)
methods == {"get", "post", "delete"}

\* lines 93-101: the properties the call defines on the prototype
loadMethods(pr) ==
  pr \cup methods \cup { UpperTok(m) : m \in methods } \cup {"del"}

MethodNames == loadMethods({})

\* lines 94, 101: the METHOD a verb method closes over; del is delete's
httpVerbMethod(name) == IF name = "del" THEN "DELETE" ELSE UpperTok(name)

\* router[name]: an instance has no verb method of its own, the lookup
\* goes to the prototype
HasMethod(r, name, pr) == name \in pr

\* lines 97-98: this.addRoute.apply(this, [METHOD].concat(args))
VerbCall(name, a) ==
  Call(Str(<<httpVerbMethod(name)>>), a.route, a.fns, a.args)

(***************************************************************************)
(* middleware(opts) and legacyMiddleware() call by call: mw is the call in *)
(* progress or the last one returned.                                      *)
(*   pc            "idle", the function whose body runs next               *)
(*                 ("middleware" / "legacyMiddleware"), or "returned"      *)
(*   top, opts     the function the caller invoked and its argument        *)
(*   arg           the argument of the middleware call whose body is next  *)
(*   before        this.options when the caller invoked top                *)
(*   entered       how many times middleware was entered                   *)
(*   legacyEntered how many times legacyMiddleware was entered             *)
(*   built         how many modern dispatchers were built                  *)
(*   disp          the dispatcher returned to the caller                   *)
(***************************************************************************)
MaxDepth == 3

NoMw ==
  [pc |-> "idle", top |-> "none", opts |-> NoOpts, arg |-> NoOpts,
   before |-> [prefix |-> <<>>, legacy |-> FALSE],
   entered |-> 0, legacyEntered |-> 0, built |-> 0,
   disp |-> [prefix |-> <<>>, legacy |-> FALSE]]

\* the caller invokes router.middleware(o)
EnterMiddleware(thisOptions, o) ==
  [NoMw EXCEPT !.pc = "middleware", !.top = "middleware", !.opts = o,
               !.arg = o, !.before = thisOptions, !.entered = 1]

\* the caller invokes router.legacyMiddleware()
EnterLegacyMiddleware(thisOptions) ==
  [NoMw EXCEPT !.pc = "legacyMiddleware", !.top = "legacyMiddleware",
               !.before = thisOptions, !.legacyEntered = 1]

\* lines 299-350: the body of middleware; with legacy set it goes on into
\* legacyMiddleware, otherwise it returns the closure, which every
\* legacyMiddleware on the stack wraps by convert.back
MiddlewareBody(m, merged) ==
  IF merged.legacy
    THEN [m EXCEPT !.pc = "legacyMiddleware",
                   !.legacyEntered = m.legacyEntered + 1]
    ELSE [m EXCEPT !.pc = "returned", !.built = m.built + 1,
                   !.disp = [prefix |-> merged.prefix,
                             legacy |-> m.legacyEntered > 0]]

\* lines 379-381: this.middleware(), no argument
LegacyMiddlewareBody(m) ==
  [m EXCEPT !.pc = "middleware", !.arg = NoOpts, !.entered = m.entered + 1]

(***************************************************************************)
(* The auxiliary variables start empty; last is the request dispatched     *)
(* most recently (0: none yet).                                            *)
(***************************************************************************)
AuxInit ==
  /\ proto = {}
  /\ loaded = {}
  /\ mw = NoMw
  /\ last = 0

(***************************************************************************)
(* Actions                                                                 *)
(***************************************************************************)
AddRouteOp(c) ==
  /\ Len(routes) < MaxRoutes
  /\ routes' = addRoute(options, routes, c)
  /\ UNCHANGED <<options, dispatchers, req>>

CreateRouteOp(c) ==
  UNCHANGED <<options, routes, dispatchers, req>>

MiddlewareOp(o) ==
  LET m == middleware(options, o)
  IN /\ options' = m.options
     /\ dispatchers' = dispatchers \cup {m.disp}
     /\ UNCHANGED <<routes, req>>

DispatchOp(id, d, method, path, seed, nx) ==
  /\ req[id].st = "idle"
  /\ LET res == dispatch(routes, req[id], d, method, path, seed, nx)
     IN /\ routes' = res.routes
        /\ req' = [req EXCEPT ![id] = res.req]
  /\ UNCHANGED <<options, dispatchers>>

EnterOp(id) ==
  /\ req[id].st = "chain" /\ req[id].phase = "enter"
  /\ req' = [req EXCEPT ![id] = Enter(@)]
  /\ UNCHANGED <<options, routes, dispatchers>>

ExitOp(id) ==
  /\ req[id].st = "chain" /\ req[id].phase = "exit"
  /\ req' = [req EXCEPT ![id] = Exit(@)]
  /\ UNCHANGED <<options, routes, dispatchers>>

ThenOp(id, nx) ==
  /\ req[id].st = "then"
  /\ req' = [req EXCEPT ![id] = Then(@, nx)]
  /\ UNCHANGED <<options, routes, dispatchers>>

\* the request is over; the next one arrives with a ctx of its own
NewRequest(id) ==
  /\ req[id].st = "done"
  /\ req' = [req EXCEPT ![id] = IdleReq]
  /\ UNCHANGED <<options, routes, dispatchers>>

(***************************************************************************)
(* Spec: registration, middleware() and dispatch of one request at a time  *)
(***************************************************************************)
Init ==
  /\ options \in ConstructorOptions
  /\ routes = <<>>
  /\ dispatchers = {}
  /\ req = [id \in Requests |-> IdleReq]
  /\ call = NoCall
  /\ input = NoCall.c
  /\ AuxInit

\* routes are registered and dispatchers made while no request is in
\* flight
Quiet == \A id \in DOMAIN req : req[id].st = "idle"

Register ==
  \E c \in RouteCalls : Quiet /\ AddRouteOp(c) /\ UNCHANGED <<call, input, aux>>

Configure ==
  \E o \in MiddlewareOpts : Quiet /\ MiddlewareOp(o) /\ UNCHANGED <<call, input, aux>>

Dispatch ==
  \E id \in Requests, d \in dispatchers, method \in Methods, path \in Paths,
     seed \in Seeds, nx \in NextOutcomes :
    DispatchOp(id, d, method, path, seed, nx) /\ UNCHANGED <<call, input, aux>>

HandlerEnter == \E id \in Requests : EnterOp(id) /\ UNCHANGED <<call, input, aux>>

HandlerExit == \E id \in Requests : ExitOp(id) /\ UNCHANGED <<call, input, aux>>

CallNext ==
  \E id \in Requests, nx \in NextOutcomes :
    ThenOp(id, nx) /\ UNCHANGED <<call, input, aux>>

Arrive == \E id \in Requests : NewRequest(id) /\ UNCHANGED <<call, input, aux>>

Next ==
  \/ Register
  \/ Configure
  \/ Dispatch
  \/ HandlerEnter
  \/ HandlerExit
  \/ CallNext
  \/ Arrive

Spec == Init /\ [][Next]_vars

\* every handler that runs completes, and the promise callbacks run
FairSpec ==
  /\ Spec
  /\ WF_vars(HandlerEnter) /\ WF_vars(HandlerExit) /\ WF_vars(CallNext)

(***************************************************************************)
(* SpecReg: createRoute / addRoute applied to one argument list, drawn by  *)
(* RegInit, between middleware() calls.  call records the last             *)
(* registration call: its arguments, the error thrown ("none": it          *)
(* returned), the Route createRoute returned, and the router's options and *)
(* table before and after the call.                                        *)
(***************************************************************************)
RegHandlers == {"hp", "gp"}

MethodSpecs ==
  { Str(<<"GET">>), Str(<<"get">>), Str(<<>>), Str(<<"post">>), Str(<<"foo">>),
    Str(<<"GET", " ", "/", "u">>), Str(<<"get", " ", "/", ":id">>),
    Str(<<" ", "/", "u">>), Str(<<"GET", " ", " ", "/", "u">>),
    Str(<<"GET", " ", "/", "u", " ", "/", "a">>), Num, Undefined }

RouteArgs ==
  { Str(PatU), Str(PatId), Num, Undefined, Arr(<<>>) }
    \cup { Fn(h) : h \in RegHandlers }
    \cup { Arr(<<h1, h2>>) : h1 \in RegHandlers, h2 \in RegHandlers }

FnsArgs ==
  { Undefined } \cup { Fn(h) : h \in RegHandlers }
    \cup { Arr(<<h1, h2>>) : h1 \in RegHandlers, h2 \in RegHandlers }

RestArgs == { <<>> } \cup { <<h>> : h \in RegHandlers }

\* the argument lists: no argument follows one that is not given
RegCalls ==
  { c \in { Call(m, r, f, a) : m \in MethodSpecs, r \in RouteArgs,
                               f \in FnsArgs, a \in RestArgs } :
      /\ (c.route.t = "undef" => c.fns.t = "undef")
      /\ (c.fns.t = "undef" => c.args = <<>>) }

RegMiddlewareOpts == { BoolOpts("true"), ObjOpts("none", TRUE, PrefixA) }

RegConstructorOptions == { [prefix |-> Root, legacy |-> FALSE] }

\* what the call gives back: createRoute the Route (line 236), addRoute
\* and the verb methods the router (lines 169, 98), nothing when
\* createRoute throws
ReturnValue(op, created) ==
  IF created.err # "none" THEN "none"
  ELSE IF op = "createRoute" THEN "route" ELSE "this"

Record(op, c) ==
  LET created == createRoute(options, c.method, c.route, c.fns, c.args)
  IN call' = [op |-> op, c |-> c, err |-> created.err, val |-> created.val,
              opts |-> options, optsAfter |-> options',
              before |-> routes, after |-> routes',
              ret |-> ReturnValue(op, created)]

\* the table the calls start from: empty, or holding one route
RegTables(opts) ==
  { <<>>,
    addRoute(opts, <<>>, Call(Str(<<"GET">>), Str(PatU), Fn("hp"), <<>>)) }

RegInit ==
  /\ options \in RegConstructorOptions
  /\ routes \in RegTables(options)
  /\ dispatchers = {}
  /\ req = [id \in Requests |-> IdleReq]
  /\ call = NoCall
  /\ input \in RegCalls
  /\ AuxInit

RegCreate == CreateRouteOp(input) /\ Record("createRoute", input) /\ UNCHANGED <<input, aux>>

RegAdd == AddRouteOp(input) /\ Record("addRoute", input) /\ UNCHANGED <<input, aux>>

RegConfigure ==
  \E o \in RegMiddlewareOpts : MiddlewareOp(o) /\ UNCHANGED <<call, input, aux>>

RegNext ==
  \/ RegCreate
  \/ RegAdd
  \/ RegConfigure

SpecReg == RegInit /\ [][RegNext]_vars

(***************************************************************************)
(* SpecVerbs: loadMethods() on either router instance, and the verb        *)
(* methods called on this router.  call records the last verb call: op is  *)
(* the name of the method called, c the addRoute call it makes.            *)
(***************************************************************************)
LoadMethodsOp(r) ==
  /\ proto' = loadMethods(proto)
  /\ loaded' = loaded \cup {r}
  /\ UNCHANGED <<options, routes, dispatchers, req>>

\* this[name](...a): a name the router does not have is not a function
VerbMethodOp(name, a) ==
  IF HasMethod("this", name, proto)
    THEN AddRouteOp(VerbCall(name, a))
    ELSE UNCHANGED <<options, routes, dispatchers, req>>

VerbArgs ==
  { [route |-> Str(PatU), fns |-> Fn("hp"), args |-> <<>>],
    [route |-> Str(PatId), fns |-> Arr(<<"hp", "gp">>), args |-> <<"hp">>],
    [route |-> Fn("hp"), fns |-> Undefined, args |-> <<>>] }

VerbInit ==
  /\ options = [prefix |-> Root, legacy |-> FALSE]
  /\ routes = <<>>
  /\ dispatchers = {}
  /\ req = [id \in Requests |-> IdleReq]
  /\ call = NoCall
  /\ input = NoCall.c
  /\ AuxInit

VerbLoad ==
  \E r \in Routers : LoadMethodsOp(r) /\ UNCHANGED <<call, input, mw, last>>

VerbInvoke ==
  \E name \in MethodNames, a \in VerbArgs :
    /\ VerbMethodOp(name, a)
    /\ IF HasMethod("this", name, proto)
         THEN Record(name, VerbCall(name, a))
         ELSE call' = [NoCall EXCEPT !.op = name, !.c = VerbCall(name, a),
                                     !.err = "TypeError: not a function",
                                     !.opts = options, !.optsAfter = options,
                                     !.before = routes, !.after = routes]
    /\ UNCHANGED <<input, aux>>

VerbNext ==
  \/ VerbLoad
  \/ VerbInvoke

SpecVerbs == VerbInit /\ [][VerbNext]_vars

(***************************************************************************)
(* SpecMw: middleware(opts) and legacyMiddleware() followed call by call,  *)
(* on routers constructed with and without legacy, between registrations.  *)
(***************************************************************************)
CallMiddlewareOp(o) ==
  /\ mw.pc \in {"idle", "returned"}
  /\ mw' = EnterMiddleware(options, o)
  /\ UNCHANGED <<options, routes, dispatchers, req>>

CallLegacyMiddlewareOp ==
  /\ mw.pc \in {"idle", "returned"}
  /\ mw' = EnterLegacyMiddleware(options)
  /\ UNCHANGED <<options, routes, dispatchers, req>>

MiddlewareBodyOp ==
  /\ mw.pc = "middleware"
  /\ LET merged == MergeOptions(options, mw.arg)
     IN /\ options' = merged
        /\ mw' = MiddlewareBody(mw, merged)
  /\ dispatchers' = IF mw'.pc = "returned" THEN dispatchers \cup {mw'.disp}
                    ELSE dispatchers
  /\ UNCHANGED <<routes, req>>

LegacyMiddlewareBodyOp ==
  /\ mw.pc = "legacyMiddleware"
  /\ mw.entered < MaxDepth
  /\ mw' = LegacyMiddlewareBody(mw)
  /\ UNCHANGED <<options, routes, dispatchers, req>>

MwOpts ==
  { NoOpts, BoolOpts("true"), BoolOpts("false"),
    ObjOpts("true", FALSE, <<>>), ObjOpts("none", TRUE, PrefixA),
    ObjOpts("true", TRUE, Root) }

MwConstructorOptions ==
  { [prefix |-> p, legacy |-> l] : p \in {Root, PrefixA}, l \in BOOLEAN }

MwInit ==
  /\ options \in MwConstructorOptions
  /\ routes = <<>>
  /\ dispatchers = {}
  /\ req = [id \in Requests |-> IdleReq]
  /\ call = NoCall
  /\ input = Call(Str(<<"GET">>), Str(PatU), Fn("hp"), <<>>)
  /\ AuxInit

MwCall ==
  \E o \in MwOpts :
    CallMiddlewareOp(o) /\ UNCHANGED <<call, input, proto, loaded, last>>

MwCallLegacy ==
  CallLegacyMiddlewareOp /\ UNCHANGED <<call, input, proto, loaded, last>>

MwBody == MiddlewareBodyOp /\ UNCHANGED <<call, input, proto, loaded, last>>

MwLegacyBody ==
  LegacyMiddlewareBodyOp /\ UNCHANGED <<call, input, proto, loaded, last>>

\* a registration between two calls
MwAdd ==
  /\ mw.pc \in {"idle", "returned"}
  /\ AddRouteOp(input) /\ Record("addRoute", input)
  /\ UNCHANGED <<input, aux>>

MwNext ==
  \/ MwCall
  \/ MwCallLegacy
  \/ MwBody
  \/ MwLegacyBody
  \/ MwAdd

SpecMw == MwInit /\ [][MwNext]_vars

\* a function that was entered runs its body
FairSpecMw == SpecMw /\ WF_vars(MwBody) /\ WF_vars(MwLegacyBody)

(***************************************************************************)
(* SpecConc: two requests, each with a ctx of its own, dispatched on one   *)
(* router through its two dispatchers; the handlers of one request may be  *)
(* suspended while the other request is dispatched and runs.  The router   *)
(* is the one left by                                                      *)
(*   addRoute('GET', '/u', hp, gp); addRoute('GET /:id', [gp, hp]);        *)
(*   middleware(); middleware({prefix: '/a'})                              *)
(***************************************************************************)
ConcRequests == {1, 2}

ConcRouter ==
  LET o0 == [prefix |-> Root, legacy |-> FALSE]
      t1 == addRoute(o0, <<>>, Call(Str(<<"GET">>), Str(PatU), Fn("hp"), <<"gp">>))
      t2 == addRoute(o0, t1, Call(Str(<<"GET", " ">> \o PatId),
                                  Arr(<<"gp", "hp">>), Undefined, <<>>))
      m1 == middleware(o0, NoOpts)
      m2 == middleware(m1.options, ObjOpts("none", TRUE, PrefixA))
  IN [options |-> m2.options, routes |-> t2,
      dispatchers |-> {m1.disp, m2.disp}]

ConcPaths ==
  { <<"/", "u">>, <<"/", "a">>, <<"/", "b">>, <<"/", "a", "/", "b">> }

FreshSeed == [params |-> NoParams, route |-> 0]

ConcInit ==
  /\ options = ConcRouter.options
  /\ routes = ConcRouter.routes
  /\ dispatchers = ConcRouter.dispatchers
  /\ req = [id \in ConcRequests |-> IdleReq]
  /\ call = NoCall
  /\ input = NoCall.c
  /\ AuxInit

\* the matching loop of a dispatcher call runs to its end in one step: it
\* is synchronous code on a single thread (lines 315-346)
ConcDispatch ==
  \E id \in ConcRequests, d \in dispatchers, path \in ConcPaths,
     nx \in NextOutcomes :
    /\ DispatchOp(id, d, <<"GET">>, path, FreshSeed, nx)
    /\ last' = id
    /\ UNCHANGED <<call, input, proto, loaded, mw>>

ConcEnter == \E id \in ConcRequests : EnterOp(id) /\ UNCHANGED <<call, input, aux>>

ConcExit == \E id \in ConcRequests : ExitOp(id) /\ UNCHANGED <<call, input, aux>>

ConcThen ==
  \E id \in ConcRequests, nx \in NextOutcomes :
    ThenOp(id, nx) /\ UNCHANGED <<call, input, aux>>

ConcNext ==
  \/ ConcDispatch
  \/ ConcEnter
  \/ ConcExit
  \/ ConcThen

SpecConc == ConcInit /\ [][ConcNext]_vars

(***************************************************************************)
(* Properties of dispatch                                                  *)
(***************************************************************************)
Dispatched(r) == r.st # "idle"

\* the matcher of route i under prefix P, compiled from its base pattern
MatcherUnder(P, i) == pathMatch(createPrefix(P, routes[i].pathname))

\* the routes, among those registered when r was dispatched, with r's
\* method whose matcher under the dispatcher's prefix accepts r's path
Candidates(r) ==
  { i \in 1..r.seen :
      /\ routes[i].method = r.method
      /\ ApplyMatch(MatcherUnder(r.d.prefix, i), r.path, r.params0) # NoMatch }

Earliest(S) == CHOOSE i \in S : \A j \in S : i <= j

IsPrefixOf(a, b) == Len(a) <= Len(b) /\ a = SubSeq(b, 1, Len(a))

\* C1: if some route has the request's method and a matcher (under the
\* dispatcher's prefix) that accepts the path, dispatch sets ctx.route to
\* the earliest-registered such route and ctx.params to its mapping, and
\* the handlers that run are handlers of that route's chain, in order
C1_FirstMatchWins ==
  \A id \in DOMAIN req :
    LET r == req[id]
    IN (Dispatched(r) /\ Candidates(r) # {}) =>
         LET first == Earliest(Candidates(r))
         IN /\ r.hit = first
            /\ r.route = first
            /\ r.params = ApplyMatch(MatcherUnder(r.d.prefix, first),
                                     r.path, r.params0)
            /\ r.chain = routes[first].middlewares
            /\ IsPrefixOf(r.ran, r.chain)

\* a duplicate (method, pattern) registration: the first ran, the second
\* was a candidate too
C1_Witness ==
  \E id \in DOMAIN req :
    LET r == req[id]
    IN /\ r.st = "done" /\ r.hit = 1 /\ Len(r.ran) = 2
       /\ Candidates(r) = {1, 2}
       /\ routes[1].pathname = routes[2].pathname
       /\ routes[1].middlewares # routes[2].middlewares

\* C2: a request that matches no route has next() invoked exactly once,
\* no handler run, ctx.route and ctx.params as they arrived, and the
\* outcome of next() as its outcome
C2_NoMatchPassesThrough ==
  \A id \in DOMAIN req :
    LET r == req[id]
    IN (Dispatched(r) /\ Candidates(r) = {}) =>
         /\ r.st = "done"
         /\ r.nextCalls = 1
         /\ r.ran = <<>> /\ r.chain = <<>>
         /\ r.route = r.route0
         /\ r.params = r.params0
         /\ r.outcome = r.nextOut /\ r.nextOut \in NextOutcomes

\* no match in a table that holds a route of the request's method, with a
\* ctx an earlier stage filled, next() failing
C2_Witness ==
  \E id \in DOMAIN req :
    LET r == req[id]
    IN /\ r.st = "done" /\ r.hit = 0 /\ r.route0 = -1 /\ r.route = -1
       /\ r.params = {<<"id", "z">>}
       /\ r.outcome = "rejected"
       /\ \E i \in 1..r.seen : routes[i].method = r.method

\* what C3 says of one state
NextOnlyAfterChain(r) ==
  /\ r.nextCalls <= 1
  /\ r.st \in {"chain", "then"} => r.nextCalls = 0
  /\ (r.hit # 0 /\ r.nextCalls = 1) =>
       r.settled = "resolved" /\ r.nextActive = 0 /\ r.active = 0
  /\ (r.hit # 0 /\ r.st = "done" /\ r.settled = "resolved") =>
       r.nextCalls = 1

\* C3: when a route matches and its chain completes successfully, next()
\* is invoked exactly once and only after the whole chain has completed,
\* never while a handler of the route runs; and a chain whose handlers
\* complete is followed by the call of next() unless it failed
C3_NextAfterChain ==
  /\ [](\A id \in Requests : NextOnlyAfterChain(req[id]))
  /\ \A id \in Requests :
       (req[id].st = "chain") ~>
         (req[id].settled = "rejected" \/ req[id].nextCalls = 1)

\* the first handler completed without calling its continuation: the
\* second never ran, and next() was called once
C3_Witness ==
  \E id \in Requests :
    LET r == req[id]
    IN /\ r.st = "done" /\ r.hit # 0 /\ r.nextCalls = 1
       /\ r.chain = <<"hs", "hp">> /\ r.ran = <<"hs">>

\* C4: when a handler of the matched route fails, the dispatcher's outcome
\* is rejected with that failure, next() is not invoked, no handler starts
\* after the failure (none after the failing one ran if it failed before
\* calling its continuation) and no handler is started twice
C4_FailurePropagates ==
  \A id \in DOMAIN req :
    LET r == req[id]
    IN r.failed # 0 =>
         /\ r.nextCalls = 0 /\ r.st # "then"
         /\ ~r.late
         /\ IsPrefixOf(r.ran, r.chain)
         /\ Behaviour(r.chain[r.failed]) = "fail" => Len(r.ran) = r.failed
         /\ r.st = "done" =>
              /\ r.outcome = "rejected" /\ r.settled = "rejected"
              /\ r.error = r.failed

\* the second of three handlers failed
C4_Witness ==
  \E id \in DOMAIN req :
    LET r == req[id]
    IN /\ r.st = "done" /\ r.failed = 2 /\ Len(r.chain) = 3
       /\ r.ran = <<"hp", "hf">> /\ r.outcome = "rejected"

\* the step is the synchronous part of the dispatch of request id
DispatchStep(id) == req[id].st = "idle" /\ req'[id].st # "idle"

\* route i is visited by the dispatch that made r: it has the request's
\* method and does not come after the route that matched
Visited(r, i) == routes[i].method = r.method /\ (r.hit = 0 \/ i <= r.hit)

SamePrefix(i) ==
  /\ routes'[i].prefix = routes[i].prefix
  /\ routes'[i].path = routes[i].path
  /\ routes'[i].match = routes[i].match

HasPrefix(route, P) ==
  /\ route.prefix = P
  /\ route.path = createPrefix(P, route.pathname)
  /\ route.match = pathMatch(createPrefix(P, route.pathname))

C5Step ==
  /\ Len(routes') >= Len(routes)
  /\ \A i \in 1..Len(routes) :
       IF \E id \in DOMAIN req : DispatchStep(id) /\ Visited(req'[id], i)
         THEN \A id \in DOMAIN req :
                DispatchStep(id) => HasPrefix(routes'[i], req'[id].d.prefix)
         ELSE SamePrefix(i)

\* C5: a dispatch rewrites prefix, full path and matcher of every route it
\* visits to the dispatcher's prefix; every other step (a dispatch that
\* does not visit the route, a registration, a middleware() call, the
\* handlers) leaves the prefix, path and matcher of a route as they are
C5_LazyPersistentPrefix == [][C5Step]_vars

\* a dispatch rewrote one route and left another with its stored prefix
C5_Witness ==
  \E id \in DOMAIN req :
    LET r == req[id]
    IN /\ r.st = "done" /\ r.rew # {}
       /\ \A j \in r.rew : HasPrefix(routes[j], r.d.prefix)
       /\ \E i \in 1..Len(routes) :
            routes[i].prefix # r.d.prefix /\ routes[i].prefix # options.prefix

\* C6: whatever dispatcher ran before and whatever middleware() calls were
\* made since it was created, a dispatcher selects route R exactly when R
\* is the first route of the request's method whose pattern joined to the
\* prefix the dispatcher was created with matches the path, and selects
\* none exactly when there is no such route
C6_DispatcherKeepsItsPrefix ==
  \A id \in DOMAIN req :
    LET r == req[id]
    IN Dispatched(r) =>
         /\ r.d \in dispatchers
         /\ r.hit = IF Candidates(r) = {} THEN 0 ELSE Earliest(Candidates(r))
         /\ r.hit # 0 => HasPrefix(routes[r.hit], r.d.prefix)

\* two dispatchers of the router; the one used was created before the
\* configured prefix changed, found its route with its own prefix, and the
\* other dispatcher would not have found it
C6_Witness ==
  \E id \in DOMAIN req :
    LET r == req[id]
    IN /\ r.st = "done" /\ r.hit # 0
       /\ Cardinality(dispatchers) = 2
       /\ r.d.prefix # options.prefix
       /\ ApplyMatch(MatcherUnder(options.prefix, r.hit), r.path, r.params0)
            = NoMatch

(***************************************************************************)
(* Properties of registration (SpecReg)                                    *)
(***************************************************************************)
Called == call.op # "none"

Returned == Called /\ call.err = "none"

\* the three ways of writing GET p with the handlers h1, h2
Form1(v, p, h1, h2) == Call(Str(v), Str(p), Fn(h1), <<h2>>)
Form2(v, p, h1, h2) == Call(Str(v \o <<" ">> \o p), Arr(<<h1, h2>>), Undefined, <<>>)
Form3(v, p, h1, h2) == Call(Str(v \o <<" ">> \o p), Fn(h1), Fn(h2), <<>>)

Forms(v, p, h1, h2) ==
  { Form1(v, p, h1, h2), Form2(v, p, h1, h2), Form3(v, p, h1, h2) }

GetSpecs == { <<<<"GET">>, PatU>>, <<<<"get">>, PatId>> }

Created(opts, c) == createRoute(opts, c.method, c.route, c.fns, c.args)

\* the handlers an argument contributes
HandlersOf(x) == IF x.t \in {"fn", "arr"} THEN x.h ELSE <<>>

\* C7: createRoute('GET', p, h1, h2), createRoute('GET p', [h1, h2]) and
\* createRoute('GET p', h1, h2) return equivalent Routes: method GET, base
\* pattern p, the configured prefix, the same full path and matcher, and
\* the handlers <<h1, h2>>; and whatever the arguments, a leading handler
\* or handler array comes before the trailing handlers, in argument order
C7_EquivalentForms ==
  /\ \A vp \in GetSpecs, h1 \in RegHandlers, h2 \in RegHandlers :
       (Called /\ call.c \in Forms(vp[1], vp[2], h1, h2)) =>
         /\ call.err = "none"
         /\ call.val.method = <<"GET">>
         /\ call.val.pathname = vp[2] /\ call.val.route = vp[2]
         /\ call.val.prefix = call.opts.prefix
         /\ call.val.middlewares = <<h1, h2>>
         /\ \A c \in Forms(vp[1], vp[2], h1, h2) :
              Created(call.opts, c) = [err |-> "none", val |-> call.val]
  /\ Returned =>
       call.val.middlewares =
         HandlersOf(call.c.route) \o HandlersOf(call.c.fns) \o call.c.args

\* createRoute('GET /u', h1, h2) with two different handlers was called
C7_Witness ==
  /\ call.op = "createRoute"
  /\ call.c = Form3(<<"GET">>, PatU, "gp", "hp")
  /\ call.val.middlewares = <<"gp", "hp">>

HasSpace(s) == \E i \in 1..Len(s) : s[i] = " "

\* C8: createRoute and addRoute throw a TypeError when method is not a
\* string, when route is neither a string, a handler nor a handler array,
\* and when route is a handler or handler array and the method string has
\* no pattern part; a call that throws returns no Route and leaves the
\* table and the options as they were
C8_InvalidArgument ==
  Called =>
    /\ call.c.method.t # "str" => call.err = "TypeError: method"
    /\ (call.c.method.t = "str" /\ call.c.route.t \notin {"str", "fn", "arr"})
         => call.err = "TypeError: route"
    /\ (/\ call.c.method.t = "str" /\ call.c.route.t \in {"fn", "arr"}
        /\ ~HasSpace(call.c.method.s))
         => call.err = "TypeError: route"
    /\ call.err # "none" =>
         /\ call.val = NoRoute
         /\ call.after = call.before
         /\ call.optsAfter = call.opts

\* addRoute('GET', handler) threw on a table that holds a route
C8_Witness ==
  /\ call.op = "addRoute" /\ call.err = "TypeError: route"
  /\ call.c.method = Str(<<"GET">>) /\ call.c.route.t = "fn"
  /\ Len(call.before) = 1 /\ routes = call.before

\* the number of handlers a call supplies
Supplied(c) ==
  Len(HandlersOf(c.route)) + Len(HandlersOf(c.fns)) + Len(c.args)

\* C9 as claimed: every Route of the table has at least one handler, and a
\* registration that supplies none is rejected and adds nothing
C9_Original ==
  /\ \A i \in 1..Len(routes) : routes[i].middlewares # <<>>
  /\ (Called /\ Supplied(call.c) = 0) =>
       call.err # "none" /\ call.after = call.before

\* C9 as amended: a Route has exactly the handlers its registration
\* supplied; a registration that supplies none and names a method and a
\* pattern is accepted, and addRoute appends its Route with no handler
C9_HandlersAsSupplied ==
  /\ Returned =>
       /\ Len(call.val.middlewares) = Supplied(call.c)
       /\ call.val.middlewares # <<>> <=> Supplied(call.c) > 0
       /\ call.op = "addRoute" => call.after = Append(call.before, call.val)
  /\ (/\ Called /\ Supplied(call.c) = 0
      /\ call.c.method.t = "str" /\ call.c.route.t = "str") => Returned

\* addRoute('GET', '/u') put a Route without handlers into the table
C9_Witness ==
  /\ call.op = "addRoute" /\ Returned
  /\ call.c = Call(Str(<<"GET">>), Str(PatU), Undefined, <<>>)
  /\ routes[Len(routes)].middlewares = <<>>

\* the verbs of the methods list, upper-cased
HttpVerbs ==
  { <<"GET">>, <<"POST">>, <<"PUT">>, <<"HEAD">>, <<"DELETE">>, <<"OPTIONS">>,
    <<"TRACE">>, <<"COPY">>, <<"LOCK">>, <<"MKCOL">>, <<"MOVE">>, <<"PURGE">>,
    <<"PROPFIND">>, <<"PROPPATCH">>, <<"UNLOCK">>, <<"REPORT">>,
    <<"MKACTIVITY">>, <<"CHECKOUT">>, <<"MERGE">>, <<"M-SEARCH">>,
    <<"NOTIFY">>, <<"SUBSCRIBE">>, <<"UNSUBSCRIBE">>, <<"PATCH">>,
    <<"SEARCH">>, <<"CONNECT">> }

RECURSIVE VerbPart(_)
\* the tokens before the first space
VerbPart(s) ==
  IF s = <<>> \/ s[1] = " " THEN <<>> ELSE <<s[1]>> \o VerbPart(Tail(s))

\* C10 as claimed: the method of every Route is one of the HTTP verbs,
\* whatever string was passed as method spec
C10_Original ==
  /\ \A i \in 1..Len(routes) : routes[i].method \in HttpVerbs
  /\ Returned => call.val.method \in HttpVerbs

\* C10 as amended: the method of a Route is the part of the method spec
\* before its first space, upper-cased, GET when that part is empty; it is
\* an HTTP verb whenever that part is one in either case, or empty
C10_MethodUpperCased ==
  Returned =>
    LET verb == VerbPart(call.c.method.s)
    IN /\ call.val.method = IF verb = <<>> THEN <<"GET">> ELSE toUpperCase(verb)
       /\ toUpperCase(call.val.method) = call.val.method
       /\ (verb = <<>> \/ toUpperCase(verb) \in HttpVerbs)
            => call.val.method \in HttpVerbs
       /\ call.op = "addRoute" =>
            routes[Len(call.after)].method = call.val.method

\* addRoute with an empty verb part registered a GET route
C10_Witness ==
  /\ call.op = "addRoute" /\ Returned
  /\ call.c.method = Str(<<" ", "/", "u">>)
  /\ routes[Len(routes)].method = <<"GET">>

\* the Route the verb method name makes of the arguments a: the one
\* addRoute makes with the upper-case verb as its first argument
Forwarded(name, a) ==
  Created(call.opts, Call(Str(<<httpVerbMethod(name)>>), a.route, a.fns, a.args))

\* C11 as claimed: a router on which loadMethods() was not invoked has none
\* of the verb methods (get/GET, post/POST, delete/DELETE, del), whatever was
\* done on the other router instance; and a verb method called with a route
\* and handlers registers what addRoute registers with the upper-case verb
\* put first
C11_Original ==
  /\ \A r \in Routers \ loaded :
       \A name \in MethodNames : ~HasMethod(r, name, proto)
  /\ \A name \in MethodNames, a \in VerbArgs :
       (call.op = name /\ call.c = VerbCall(name, a)
          /\ call.err # "TypeError: not a function") =>
         /\ call.err = Forwarded(name, a).err
         /\ call.val = Forwarded(name, a).val
         /\ Returned => call.after = Append(call.before, Forwarded(name, a).val)

\* what holds of the code: the verb methods exist on every router instance
\* as soon as loadMethods() was invoked on any one of them
C11_SharedPrototype ==
  \A r \in Routers, name \in MethodNames :
    HasMethod(r, name, proto) <=> loaded # {}

\* loadMethods() was invoked on the other instance only, and this router's
\* get registered a route
C11_Witness ==
  /\ loaded = {"other"}
  /\ call.op = "get" /\ Returned
  /\ routes # <<>> /\ routes[Len(routes)].method = <<"GET">>

\* a call of middleware has returned to its caller
MiddlewareReturned == mw.pc = "returned" /\ mw.top = "middleware"

\* C12 as claimed: middleware() returns the legacy dispatcher when the
\* call asks for legacy, and also when the router was configured with
\* legacy = true and the call names no legacy (Router({legacy: true})
\* followed by middleware() with no argument)
C12_Original ==
  MiddlewareReturned =>
    /\ mw.opts.legacy = "true" => mw.disp.legacy
    /\ (mw.before.legacy /\ mw.opts.legacy = "none") => mw.disp.legacy

\* Router({legacy: true}).middleware() returned the modern dispatcher
C12_Witness ==
  /\ MiddlewareReturned
  /\ mw.before.legacy /\ mw.opts = NoOpts
  /\ ~mw.disp.legacy /\ ~options.legacy

\* the call supplies a prefix
SuppliesPrefix(o) == o.t = "obj" /\ o.hasPrefix

\* the body of middleware runs in this step
BodyStep == mw.pc = "middleware" /\ mw'.pc # "middleware"

C14Step ==
  /\ BodyStep =>
       /\ options'.prefix = IF SuppliesPrefix(mw.arg) THEN mw.arg.prefix
                            ELSE options.prefix
       /\ options'.legacy = (mw.arg.legacy = "true")
  /\ ~BodyStep => options' = options
  /\ routes' # routes =>
       /\ Len(routes') = Len(routes) + 1
       /\ routes'[Len(routes')].prefix = options.prefix
       /\ (MiddlewareReturned /\ SuppliesPrefix(mw.opts)) =>
            routes'[Len(routes')].prefix = mw.opts.prefix

InCall == mw.pc \in {"middleware", "legacyMiddleware"}

\* C19: a call of middleware or legacyMiddleware enters middleware at most
\* twice and legacyMiddleware at most once: the middleware call that
\* legacyMiddleware makes resolves legacy to false whatever the
\* configuration, so it builds the modern dispatcher, the only one built,
\* and the call returns it wrapped for the legacy convention; every call
\* returns
C19_Terminates ==
  /\ [](/\ mw.entered <= 2 /\ mw.legacyEntered <= 1 /\ mw.built <= 1
        /\ (mw.pc = "middleware" /\ mw.legacyEntered = 1) =>
             ~MergeOptions(options, mw.arg).legacy
        /\ mw.pc = "returned" =>
             /\ mw.built = 1
             /\ mw.disp.legacy <=> mw.legacyEntered = 1
             /\ mw.top = "legacyMiddleware" => mw.disp.legacy
             /\ mw.opts.legacy = "true" => mw.disp.legacy)
  /\ InCall ~> (mw.pc = "returned")

\* middleware(true) on a router constructed with legacy = true returned
\* the legacy dispatcher after entering middleware twice
C19_Witness ==
  /\ MiddlewareReturned
  /\ mw.opts = BoolOpts("true") /\ mw.before.legacy
  /\ mw.entered = 2 /\ mw.legacyEntered = 1 /\ mw.built = 1
  /\ mw.disp.legacy

\* C13: createRoute leaves the table and the options as they were; an
\* addRoute that returns leaves the options and every entry of the table
\* in place, appends the one Route createRoute makes of its arguments at
\* the end, also when the table already holds an equal Route, and returns
\* the router
C13_RegistrationFrame ==
  /\ call.op = "createRoute" =>
       /\ call.after = call.before /\ call.optsAfter = call.opts
       /\ Returned => call.ret = "route"
  /\ (call.op = "addRoute" /\ Returned) =>
       /\ Len(call.after) = Len(call.before) + 1
       /\ SubSeq(call.after, 1, Len(call.before)) = call.before
       /\ call.after[Len(call.after)] = call.val
       /\ call.val = Created(call.opts, call.c).val
       /\ call.optsAfter = call.opts
       /\ call.ret = "this"
  /\ call.op \in {"createRoute", "addRoute"} => routes = call.after

\* addRoute appended a Route equal to the one the table held
C13_Witness ==
  /\ call.op = "addRoute" /\ Returned
  /\ Len(call.before) = 1 /\ call.before[1] = call.val
  /\ routes = <<call.val, call.val>>

\* the verb createRoute is to take from a method spec
VerbOfSpec(s) ==
  IF VerbPart(s) = <<>> THEN <<"GET">> ELSE toUpperCase(VerbPart(s))

\* the route argument is a handler or a handler array, so the pattern comes
\* from the method spec
PatternFromSpec == Returned /\ call.c.route.t \in {"fn", "arr"}

\* C20 as claimed: the verb is what stands left of the first space of the
\* method spec (GET when empty, upper-cased), the pattern candidate is
\* everything right of the first space, further spaces included, and a
\* string route argument wins over the pattern candidate
C20_Original ==
  Returned =>
    /\ call.val.method = VerbOfSpec(call.c.method.s)
    /\ call.c.route.t = "str" => call.val.pathname = call.c.route.s
    /\ PatternFromSpec => call.val.pathname = Remainder(call.c.method.s)

\* C20 as amended: the method spec is split on every space; the verb is
\* the part before the first space, the pattern candidate is the part
\* between the first and the second space (the empty string when the two
\* are adjacent), whatever follows the second space is dropped, and a
\* string route argument wins over the pattern candidate
C20_SplitOnEverySpace ==
  /\ Returned =>
       /\ call.val.method = VerbOfSpec(call.c.method.s)
       /\ call.c.route.t = "str" => call.val.pathname = call.c.route.s
       /\ PatternFromSpec =>
            /\ HasSpace(call.c.method.s)
            /\ call.val.pathname = VerbPart(Remainder(call.c.method.s))
            /\ ~HasSpace(call.val.pathname)
  /\ (/\ Called /\ call.c.method.t = "str" /\ HasSpace(call.c.method.s)
      /\ call.c.route.t \in {"fn", "arr"}) => Returned

\* createRoute('GET /u /a', h) made a Route with the pattern /u
C20_Witness ==
  /\ PatternFromSpec
  /\ call.c.method = Str(<<"GET", " ", "/", "u", " ", "/", "a">>)
  /\ call.val.pathname = <<"/", "u">>
  /\ call.val.method = <<"GET">>

C15Step ==
  /\ Len(routes') >= Len(routes)
  /\ \A i \in 1..Len(routes) :
       /\ routes'[i].pathname = routes[i].pathname
       /\ routes'[i].method = routes[i].method

\* C15: in every reachable state the full path of every Route of the
\* table is the slash-normalized join of the prefix stored on it and its
\* base pattern, and its matcher is the one compiled from that full path;
\* no step changes the base pattern or the method of a Route
C15_RouteConsistent ==
  /\ [](\A i \in 1..Len(routes) : HasPrefix(routes[i], routes[i].prefix))
  /\ [][C15Step]_vars

\* a dispatch through the '/a' dispatcher rewrote the first route and did
\* not reach the second, on a router configured with '/'
C15_Witness ==
  /\ options.prefix = Root /\ Len(routes) = 2
  /\ \E id \in DOMAIN req :
       /\ Dispatched(req[id]) /\ req[id].d.prefix = PrefixA
       /\ req[id].hit = 1 /\ 1 \in req[id].rew
  /\ routes[1].prefix = PrefixA /\ routes[2].prefix = Root
  /\ routes[1].path = <<"/", "a">> \o routes[1].pathname

\* the mapping the matcher of route i, under the prefix of r's dispatcher,
\* binds for r's path
Expected(r, i) == ApplyMatch(MatcherUnder(r.d.prefix, i), r.path, r.params0)

\* the request matched on route i by the most recent dispatch that matched
\* on it (of two requests, each dispatched once)
LatestOn(i) ==
  IF last # 0 /\ req[last].hit = i THEN last
  ELSE CHOOSE id \in DOMAIN req : req[id].hit = i

\* what a handler of request r reads as ctx.route.params
RouteParams(r) == routes[r.route].params

\* C16: ctx.route is the Route object of the table, shared by the requests
\* matched on it: what a handler reads as ctx.route.params is the mapping
\* of the most recent dispatch that matched the Route, and prefix, path and
\* matcher of every Route the most recent dispatch visited are those of
\* its dispatcher, whichever request the handler belongs to
C16_SharedRouteRecord ==
  /\ \A id \in DOMAIN req :
       req[id].hit # 0 =>
         LET b == LatestOn(req[id].hit)
         IN /\ req[id].route = req[id].hit
            /\ RouteParams(req[id]) = req[b].params
            /\ RouteParams(req[id]) = Expected(req[b], req[b].hit)
  /\ last # 0 =>
       \A i \in 1..Len(routes) :
         Visited(req[last], i) => HasPrefix(routes[i], req[last].d.prefix)

\* request 1 is suspended in its chain after its first handler has run,
\* request 2 was dispatched meanwhile on the same Route with another
\* mapping: ctx.route.params of request 1 is the mapping of request 2
C16_Witness ==
  /\ req[1].st = "chain" /\ req[1].ran # <<>>
  /\ last = 2 /\ req[2].hit = req[1].hit /\ req[1].hit # 0
  /\ req[2].params # req[1].params
  /\ RouteParams(req[1]) = req[2].params
  /\ RouteParams(req[1]) # req[1].params

C17Step ==
  \A id \in DOMAIN req :
    /\ req[id].st # "idle" =>
         /\ req'[id].params = req[id].params
         /\ req'[id].route = req[id].route
         /\ req'[id].hit = req[id].hit
    /\ DispatchStep(id) =>
         /\ \A o \in DOMAIN req \ {id} : req'[o] = req[o]
         /\ req'[id].hit # 0 =>
              /\ req'[id].route = req'[id].hit
              /\ req'[id].params = Expected(req'[id], req'[id].hit)
              /\ routes'[req'[id].hit].params = req'[id].params

\* C17: a dispatch matches for one request in one step, in which no other
\* request moves, and leaves ctx.route, ctx.params and route.params set; from
\* then on ctx.params of the request is the mapping of its own match,
\* whatever is dispatched later
C17_OwnParams ==
  /\ [][C17Step]_vars
  /\ [](\A id \in DOMAIN req :
          req[id].hit # 0 => req[id].params = Expected(req[id], req[id].hit))

\* request 2 was dispatched on the Route of request 1 with another mapping
\* and has finished; request 1, still in its chain, has its own ctx.params
C17_Witness ==
  /\ req[1].st = "chain" /\ req[1].ran # <<>>
  /\ last = 2 /\ req[2].st = "done"
  /\ req[2].hit = req[1].hit /\ req[1].hit # 0
  /\ req[1].params = Expected(req[1], req[1].hit)
  /\ req[1].params # routes[req[1].hit].params

C18Step ==
  /\ Len(routes') >= Len(routes)
  /\ \A i \in 1..Len(routes) :
       LET old == routes[i].middlewares
           new == routes'[i].middlewares
       IN IF \E id \in DOMAIN req : DispatchStep(id) /\ req'[id].hit = i
            THEN /\ Len(new) = Len(old)
                 /\ \A k \in 1..Len(old) :
                      /\ new[k] = IF isGenerator(old[k]) THEN convert(old[k])
                                  ELSE old[k]
                      /\ ~isGenerator(new[k])
                 /\ (\A k \in 1..Len(old) : ~isGenerator(old[k])) => new = old
                 /\ \A id \in DOMAIN req :
                      DispatchStep(id) => req'[id].chain = new
            ELSE new = old

\* C18: the dispatch that matches a Route replaces its handler sequence by
\* one of the same length in which every legacy handler is converted in
\* its place and every modern handler is the same; that sequence is stored
\* on the Route and is the chain that runs; a sequence without legacy
\* handler is left as it is, so a later matching dispatch converts nothing;
\* every other step, a dispatch that matches another Route included,
\* leaves the handlers of a Route as they are
C18_NormalizeOnce == [][C18Step]_vars

\* both requests were dispatched on the first Route, whose legacy handler
\* is stored converted; the second Route never matched and keeps its own
C18_Witness ==
  /\ req[1].hit = 1 /\ req[2].hit = 1
  /\ routes[1].middlewares = <<"hp", "cgp">>
  /\ req[1].chain = <<"hp", "cgp">> /\ req[2].chain = <<"hp", "cgp">>
  /\ routes[2].middlewares = <<"gp", "hp">>

====
